---- MODULE Spec2Model ----
(***************************************************************************)
(* Model of jax/experimental/fused_attention_stableHLO.py: the forward and *)
(* backward fused-attention primitives, their abstract evaluation rules,   *)
(* the cuDNN backend-config encoder, the two GPU lowerings and the         *)
(* custom_vjp pair dot_product_attention_fwd / dot_product_attention_bwd.  *)
(*                                                                         *)
(* Three specifications share the pure operators:                          *)
(*   SpecInfer   - one bind of each primitive on arbitrary operands:       *)
(*                 abstract evaluation, then lowering;                     *)
(*   SpecEncoder - direct calls of the backend-config encoder;             *)
(*   SpecBinder  - several logical attention calls going through the       *)
(*                 custom_vjp forward / backward pair.                     *)
(***************************************************************************)
EXTENDS Integers, Sequences, FiniteSets, TLC

\* ------------------------------------------------------------------ bounds

\* Axis lengths range over 1..MaxDim.
MaxDim == 2

\* Number of independent logical attention calls in SpecBinder.
MaxCalls == 2

\* The rank both abstract evaluation and lowering unpack query and key into.
Rank == 4

DimVals == 1..MaxDim

\* A length different from x whenever MaxDim > 1.
Other(x) == (x % MaxDim) + 1

Calls == 1..MaxCalls

\* ------------------------------------------------------------ vocabulary

\* numpy dtypes a caller may hand in.
Dtypes == {"float16", "bfloat16", "float32", "float64"}

\* Python floats used as the scale argument (opaque, only passed through).
Scales == {"1.0", "0.125"}

\* Values tried for dropout_rate by direct calls of the encoder.
DropoutRates == {0, 1}

\* Python's None.
None == "None"

\* Nothing yet: the call was not made, the value not passed.
Absent == [ok |-> FALSE]

\* A call that returned v / a call that raised exception e.
Ok(v) == [ok |-> TRUE, value |-> v]

Raise(e) == [ok |-> FALSE, error |-> e]

\* A runtime array: identity (logical call, role) plus shape and dtype.
Tensor(c, n, s, d) == [call |-> c, name |-> n, shape |-> s, dtype |-> d]

ShapedArray(shape, dtype) == [shape |-> shape, dtype |-> dtype]

\* dtypes.canonicalize_dtype with jax_enable_x64 at its default (off):
\* 64-bit floats are narrowed to 32 bits, everything else is kept.
canonicalize_dtype(dtype) == IF dtype = "float64" THEN "float32" ELSE dtype

\* The MLIR element type of a canonical dtype.
dtype_to_ir_type(dtype) ==
    CASE dtype = "float16" -> "f16"
      [] dtype = "bfloat16" -> "bf16"
      [] dtype = "float32" -> "f32"
      [] OTHER -> "f64"

IrTypes == {"f16", "bf16", "f32", "f64"}

RankedTensorType(shape, element_type) ==
    [shape |-> shape, element_type |-> element_type]

\* The ranked tensor type of an operand as the lowering sees it (x.type).
ir_type(x) ==
    RankedTensorType(x.shape, dtype_to_ir_type(canonicalize_dtype(x.dtype)))

\* Python's str() on a non-negative int.
Digit(n) ==
    CASE n = 0 -> "0" [] n = 1 -> "1" [] n = 2 -> "2" [] n = 3 -> "3"
      [] n = 4 -> "4" [] n = 5 -> "5" [] n = 6 -> "6" [] n = 7 -> "7"
      [] n = 8 -> "8" [] OTHER -> "9"

RECURSIVE str(_)
str(n) == IF n < 10 THEN Digit(n) ELSE str(n \div 10) \o Digit(n % 10)

\* ------------------------------------------------- abstract evaluation

FwdAbstractSwappedActivation(query, key, value, scale) ==
    LET query_dtype == canonicalize_dtype(query.dtype)
        key_dtype == canonicalize_dtype(key.dtype)
        value_dtype == canonicalize_dtype(value.dtype)
    IN  IF ~(query_dtype = key_dtype /\ key_dtype = value_dtype)
        THEN Raise("AssertionError")
        ELSE IF query_dtype \notin {"float16", "bfloat16"}
        THEN Raise("AssertionError")
        ELSE IF Len(query.shape) # Rank \/ Len(key.shape) # Rank
        THEN Raise("ValueError")
        ELSE Ok(<<ShapedArray(query.shape, query_dtype),
                  ShapedArray(<<query.shape[1], query.shape[2],
                                query.shape[3], key.shape[2]>>, query_dtype)>>)

FwdAbstractNoDtypeSetCheck(query, key, value, scale) ==
    LET query_dtype == canonicalize_dtype(query.dtype)
        key_dtype == canonicalize_dtype(key.dtype)
        value_dtype == canonicalize_dtype(value.dtype)
    IN  IF ~(query_dtype = key_dtype /\ key_dtype = value_dtype)
        THEN Raise("AssertionError")
        ELSE IF Len(query.shape) # Rank \/ Len(key.shape) # Rank
        THEN Raise("ValueError")
        ELSE Ok(<<ShapedArray(query.shape, query_dtype),
                  ShapedArray(<<query.shape[1], query.shape[3],
                                query.shape[2], key.shape[2]>>, query_dtype)>>)

FwdAbstractNoUnpack(query, key, value, scale) ==
    LET query_dtype == canonicalize_dtype(query.dtype)
        key_dtype == canonicalize_dtype(key.dtype)
        value_dtype == canonicalize_dtype(value.dtype)
    IN  IF ~(query_dtype = key_dtype /\ key_dtype = value_dtype)
        THEN Raise("AssertionError")
        ELSE IF query_dtype \notin {"float16", "bfloat16"}
        THEN Raise("AssertionError")
        ELSE IF Len(key.shape) # Rank
        THEN Raise("ValueError")
        ELSE Ok(<<ShapedArray(query.shape, query_dtype),
                  ShapedArray(<<query.shape[1], query.shape[Len(query.shape) - 1],
                                query.shape[2], key.shape[2]>>, query_dtype)>>)

\* _dot_product_attention_fwd_abstract: the two dtype assertions, then the
\* 4-way unpacking of query.shape and of key.shape (a ValueError on any other
\* rank), then the two descriptors.  value.shape is never read.
_dot_product_attention_fwd_abstract(query, key, value, scale) ==
    LET query_dtype == canonicalize_dtype(query.dtype)
        key_dtype == canonicalize_dtype(key.dtype)
        value_dtype == canonicalize_dtype(value.dtype)
    IN  IF ~(query_dtype = key_dtype /\ key_dtype = value_dtype)
        THEN Raise("AssertionError")
        ELSE IF query_dtype \notin {"float16", "bfloat16"}
        THEN Raise("AssertionError")
        ELSE IF Len(query.shape) # Rank
        THEN Raise("ValueError")
        ELSE IF Len(key.shape) # Rank
        THEN Raise("ValueError")
        ELSE LET batch_size == query.shape[1]
                 q_seq_len == query.shape[2]
                 num_heads == query.shape[3]
                 head_dim == query.shape[4]
                 kv_seq_len == key.shape[2]
                 output_shape == <<batch_size, q_seq_len, num_heads, head_dim>>
                 activation_shape ==
                     <<batch_size, num_heads, q_seq_len, kv_seq_len>>
             IN  Ok(<<ShapedArray(output_shape, query_dtype),
                      ShapedArray(activation_shape, query_dtype)>>)

BwdAbstractGradValueFromKey(grad_output, query, key, value, activation, scale) ==
    LET query_dtype == canonicalize_dtype(query.dtype)
        key_dtype == canonicalize_dtype(key.dtype)
        value_dtype == canonicalize_dtype(value.dtype)
    IN  IF ~(query_dtype = key_dtype /\ key_dtype = value_dtype)
        THEN Raise("AssertionError")
        ELSE IF query_dtype \notin {"float16", "bfloat16"}
        THEN Raise("AssertionError")
        ELSE Ok(<<ShapedArray(query.shape, query_dtype),
                  ShapedArray(key.shape, key_dtype),
                  ShapedArray(key.shape, value_dtype)>>)

\* _dot_product_attention_bwd_abstract: the same two assertions; no shape is
\* unpacked, so every rank is accepted.
_dot_product_attention_bwd_abstract(grad_output, query, key, value, activation, scale) ==
    LET query_dtype == canonicalize_dtype(query.dtype)
        key_dtype == canonicalize_dtype(key.dtype)
        value_dtype == canonicalize_dtype(value.dtype)
    IN  IF ~(query_dtype = key_dtype /\ key_dtype = value_dtype)
        THEN Raise("AssertionError")
        ELSE IF query_dtype \notin {"float16", "bfloat16"}
        THEN Raise("AssertionError")
        ELSE Ok(<<ShapedArray(query.shape, query_dtype),
                  ShapedArray(key.shape, key_dtype),
                  ShapedArray(value.shape, value_dtype)>>)

\* ------------------------------------------------------ backend config

\* element_type_to_backend_config_type_mapping: dict.get, so a type without an
\* entry yields None instead of raising.
element_type_to_backend_config_type_mapping(dtype) ==
    CASE dtype = "bf16" -> "BF16"
      [] dtype = "f16" -> "F16"
      [] OTHER -> None

\* range(n - 1, -1, -1) as a list.
RevRange(n) == [i \in 1..n |-> n - i]

\* default_layouts(*shapes): one descending axis order per shape.
default_layouts(shapes) == [i \in DOMAIN shapes |-> RevRange(Len(shapes[i]))]

DimNumbers(lc, rc, lb, rb) ==
    [lhs_contracting_dimensions |-> lc, rhs_contracting_dimensions |-> rc,
     lhs_batch_dimensions |-> lb, rhs_batch_dimensions |-> rb]

EncoderBmm2ContractsHeads(batch_size, num_heads, seq_q, seq_kv, dtype, fmha_scale, dropout_rate, is_flash_attention, is_causal_mask) ==
    [algorithm |->
        [algo_id |-> "0", math_type |-> "TENSOR_OP_MATH",
         tuning_knobs |-> [k \in {"17", "24"} |-> IF k = "17" THEN "1" ELSE "0"],
         is_cudnn_frontend |-> TRUE, workspace_size |-> "0"],
     fmha_scale |-> fmha_scale,
     dropout_rate |-> dropout_rate,
     bmm1_dot_dimension_numbers |->
        DimNumbers(<<"3">>, <<"3">>, <<"0", "2">>, <<"0", "2">>),
     bmm2_dot_dimension_numbers |->
        DimNumbers(<<"3">>, <<str(num_heads)>>, <<"0", "1">>, <<"0", "2">>),
     bmm1_grad_gemm1_dot_dimension_numbers |->
        DimNumbers(<<"2">>, <<"1">>, <<"0", "1">>, <<"0", "2">>),
     bmm1_grad_gemm2_dot_dimension_numbers |->
        DimNumbers(<<"3">>, <<"1">>, <<"0", "1">>, <<"0", "2">>),
     bmm2_grad_gemm1_dot_dimension_numbers |->
        DimNumbers(<<"2">>, <<"1">>, <<"0", "1">>, <<"0", "2">>),
     bmm2_grad_gemm2_dot_dimension_numbers |->
        DimNumbers(<<"3">>, <<"3">>, <<"0", "2">>, <<"0", "2">>),
     intermediate_tensor_shape |->
        [element_type |-> element_type_to_backend_config_type_mapping(dtype),
         dimensions |-> <<str(batch_size), str(num_heads), str(seq_q), str(seq_kv)>>,
         tuple_shapes |-> <<>>,
         layout |->
            [dim_level_types |-> <<>>, dim_unique |-> <<>>, dim_ordered |-> <<>>,
             minor_to_major |-> <<"3", "2", "1", "0">>, tiles |-> <<>>,
             element_size_in_bits |-> "0", memory_space |-> "0",
             index_primitive_type |-> "PRIMITIVE_TYPE_INVALID",
             pointer_primitive_type |-> "PRIMITIVE_TYPE_INVALID",
             dynamic_shape_metadata_prefix_bytes |-> "0"],
         is_dynamic_dimension |-> <<FALSE, FALSE, FALSE, FALSE>>],
     seed |-> "42",
     is_flash_attention |-> is_flash_attention,
     is_causal_mask |-> is_causal_mask]

\* create_dot_product_attention_backend_config: a dict literal; nothing in it
\* can raise, whatever dtype is.
create_dot_product_attention_backend_config(batch_size, num_heads, seq_q, seq_kv, dtype, fmha_scale, dropout_rate, is_flash_attention, is_causal_mask) ==
    [algorithm |->
        [algo_id |-> "0", math_type |-> "TENSOR_OP_MATH",
         tuning_knobs |-> [k \in {"17", "24"} |-> IF k = "17" THEN "1" ELSE "0"],
         is_cudnn_frontend |-> TRUE, workspace_size |-> "0"],
     fmha_scale |-> fmha_scale,
     dropout_rate |-> dropout_rate,
     bmm1_dot_dimension_numbers |->
        DimNumbers(<<"3">>, <<"3">>, <<"0", "2">>, <<"0", "2">>),
     bmm2_dot_dimension_numbers |->
        DimNumbers(<<"3">>, <<"1">>, <<"0", "1">>, <<"0", "2">>),
     bmm1_grad_gemm1_dot_dimension_numbers |->
        DimNumbers(<<"2">>, <<"1">>, <<"0", "1">>, <<"0", "2">>),
     bmm1_grad_gemm2_dot_dimension_numbers |->
        DimNumbers(<<"3">>, <<"1">>, <<"0", "1">>, <<"0", "2">>),
     bmm2_grad_gemm1_dot_dimension_numbers |->
        DimNumbers(<<"2">>, <<"1">>, <<"0", "1">>, <<"0", "2">>),
     bmm2_grad_gemm2_dot_dimension_numbers |->
        DimNumbers(<<"3">>, <<"3">>, <<"0", "2">>, <<"0", "2">>),
     intermediate_tensor_shape |->
        [element_type |-> element_type_to_backend_config_type_mapping(dtype),
         dimensions |-> <<str(batch_size), str(num_heads), str(seq_q), str(seq_kv)>>,
         tuple_shapes |-> <<>>,
         layout |->
            [dim_level_types |-> <<>>, dim_unique |-> <<>>, dim_ordered |-> <<>>,
             minor_to_major |-> <<"3", "2", "1", "0">>, tiles |-> <<>>,
             element_size_in_bits |-> "0", memory_space |-> "0",
             index_primitive_type |-> "PRIMITIVE_TYPE_INVALID",
             pointer_primitive_type |-> "PRIMITIVE_TYPE_INVALID",
             dynamic_shape_metadata_prefix_bytes |-> "0"],
         is_dynamic_dimension |-> <<FALSE, FALSE, FALSE, FALSE>>],
     seed |-> "42",
     is_flash_attention |-> is_flash_attention,
     is_causal_mask |-> is_causal_mask]

\* ------------------------------------------------------------- lowering

\* jaxlib.hlo_helpers.custom_call: the kernel invocation handed to the host.
custom_call(call_target_name, result_types, operands, backend_config, operand_layouts, result_layouts) ==
    [call_target_name |-> call_target_name,
     result_types |-> result_types,
     operands |-> operands,
     backend_config |-> backend_config,
     operand_layouts |-> operand_layouts,
     result_layouts |-> result_layouts]

\* _dot_product_attention_fwd_cuda_lowering: unpacks query_shape and key_shape
\* (ValueError on a rank other than 4), encodes the config with dropout 0 and
\* both flags off, and emits the forward custom call.
_dot_product_attention_fwd_cuda_lowering(query, key, value, scale) ==
    LET query_type == ir_type(query)
        query_shape == query_type.shape
        key_type == ir_type(key)
        key_shape == key_type.shape
        value_type == ir_type(value)
        value_shape == value_type.shape
    IN  IF Len(query_shape) # Rank THEN Raise("ValueError")
        ELSE IF Len(key_shape) # Rank THEN Raise("ValueError")
        ELSE LET batch_size == query_shape[1]
                 q_seq_len == query_shape[2]
                 num_heads == query_shape[3]
                 head_dim == query_shape[4]
                 kv_seq_len == key_shape[2]
                 output_shape == <<batch_size, q_seq_len, num_heads, head_dim>>
                 activation_shape ==
                     <<batch_size, num_heads, q_seq_len, kv_seq_len>>
                 opaque == create_dot_product_attention_backend_config(
                     batch_size, num_heads, q_seq_len, kv_seq_len,
                     query_type.element_type, scale, 0, FALSE, FALSE)
             IN  Ok(custom_call(
                     "__cudnn$fhmaSoftmax",
                     <<RankedTensorType(output_shape, query_type.element_type),
                       RankedTensorType(activation_shape, query_type.element_type)>>,
                     <<query, key, value>>,
                     opaque,
                     default_layouts(<<query_shape, key_shape, value_shape>>),
                     default_layouts(<<output_shape, activation_shape>>)))

\* _dot_product_attention_bwd_cuda_lowering: the same unpacking, the same
\* config, and the backward custom call on [query, key, value, activation];
\* grad_output is a parameter the body never uses.
_dot_product_attention_bwd_cuda_lowering(grad_output, query, key, value, activation, scale) ==
    LET query_type == ir_type(query)
        query_shape == query_type.shape
        key_type == ir_type(key)
        key_shape == key_type.shape
        value_type == ir_type(value)
        value_shape == value_type.shape
        activation_type == ir_type(activation)
        activation_shape == activation_type.shape
    IN  IF Len(query_shape) # Rank THEN Raise("ValueError")
        ELSE IF Len(key_shape) # Rank THEN Raise("ValueError")
        ELSE LET batch_size == query_shape[1]
                 q_seq_len == query_shape[2]
                 num_heads == query_shape[3]
                 kv_seq_len == key_shape[2]
                 opaque == create_dot_product_attention_backend_config(
                     batch_size, num_heads, q_seq_len, kv_seq_len,
                     query_type.element_type, scale, 0, FALSE, FALSE)
             IN  Ok(custom_call(
                     "__cudnn$fhmaSoftmaxBackward",
                     <<RankedTensorType(query_shape, query_type.element_type),
                       RankedTensorType(key_shape, key_type.element_type),
                       RankedTensorType(value_shape, value_type.element_type)>>,
                     <<query, key, value, activation>>,
                     opaque,
                     default_layouts(
                         <<query_shape, key_shape, value_shape, activation_shape>>),
                     default_layouts(<<query_shape, key_shape, value_shape>>)))

\* --------------------------------------------------- primitives, vjp pair

\* primitive.bind of the forward primitive: its abstract evaluation, then its
\* lowering, then the kernel's two results, typed by the abstract values.
fwd_p_bind(query, key, value, scale) ==
    LET avals == _dot_product_attention_fwd_abstract(query, key, value, scale)
        hlo == _dot_product_attention_fwd_cuda_lowering(query, key, value, scale)
    IN  IF ~avals.ok THEN [result |-> avals, hlo |-> <<>>]
        ELSE IF ~hlo.ok THEN [result |-> hlo, hlo |-> <<>>]
        ELSE [result |->
                Ok(<<Tensor(query.call, "output",
                            avals.value[1].shape, avals.value[1].dtype),
                     Tensor(query.call, "activation",
                            avals.value[2].shape, avals.value[2].dtype)>>),
              hlo |-> <<hlo.value>>]

\* primitive.bind of the backward primitive.
bwd_p_bind(grad_output, query, key, value, activation, scale) ==
    LET avals == _dot_product_attention_bwd_abstract(
                     grad_output, query, key, value, activation, scale)
        hlo == _dot_product_attention_bwd_cuda_lowering(
                   grad_output, query, key, value, activation, scale)
    IN  IF ~avals.ok THEN [result |-> avals, hlo |-> <<>>]
        ELSE IF ~hlo.ok THEN [result |-> hlo, hlo |-> <<>>]
        ELSE [result |->
                Ok(<<Tensor(query.call, "grad_query",
                            avals.value[1].shape, avals.value[1].dtype),
                     Tensor(query.call, "grad_key",
                            avals.value[2].shape, avals.value[2].dtype),
                     Tensor(query.call, "grad_value",
                            avals.value[3].shape, avals.value[3].dtype)>>),
              hlo |-> <<hlo.value>>]

FwdResidualKeyFirst(query, key, value, scale) ==
    LET b == fwd_p_bind(query, key, value, scale)
    IN  IF ~b.result.ok THEN b
        ELSE [result |-> Ok(<<b.result.value[1],
                              <<b.result.value[2], key, query, value>>>>),
              hlo |-> b.hlo]

\* dot_product_attention_fwd: binds the forward primitive and returns
\* (output, (activation, query, key, value)).
dot_product_attention_fwd(query, key, value, scale) ==
    LET b == fwd_p_bind(query, key, value, scale)
    IN  IF ~b.result.ok THEN b
        ELSE [result |-> Ok(<<b.result.value[1],
                              <<b.result.value[2], query, key, value>>>>),
              hlo |-> b.hlo]

\* dot_product_attention_bwd: unpacks the bundle, binds the backward primitive
\* on (grad_output, query, key, value, activation, scale) and returns the
\* three gradients.  "bound" records the operands of that bind.
dot_product_attention_bwd(scale, res, grad_output) ==
    LET activation == res[1]
        query == res[2]
        key == res[3]
        value == res[4]
        b == bwd_p_bind(grad_output, query, key, value, activation, scale)
    IN  [bound |-> <<grad_output, query, key, value, activation, scale>>,
         result |-> IF b.result.ok
                    THEN Ok(<<b.result.value[1], b.result.value[2],
                              b.result.value[3]>>)
                    ELSE b.result,
         hlo |-> b.hlo]

\* ---------------------------------------------------------------- state

VARIABLES
    \* SpecInfer: the operands of one bind of each primitive, and how far
    \* each bind got.
    args,          \* [query, key, value, grad_output, activation, scale]
    fwd_pc,        \* "bind" | "traced" | "lowered" | "raised"
    fwd_avals,     \* result of forward abstract evaluation, or Absent
    fwd_hlo,       \* result of the forward lowering, or Absent
    bwd_pc,
    bwd_avals,
    bwd_hlo,
    \* SpecEncoder: the last direct call of the encoder.
    cfg_args,
    cfg,
    \* SpecBinder: per logical call.
    phase,         \* "not_called" | "forward_pending" | "backward_consumed"
                   \* | "discarded" | "failed"
    inputs,        \* what the caller passed: [query, key, value, scale] or Absent
    primal_out,    \* result of the forward function, or Absent
    residual,      \* the bundle the differentiation system holds, or <<>>
    bwd_bind,      \* the operands the backward function bound, or <<>>
    grads,         \* result of the backward function, or Absent
    emitted        \* the kernel invocations built for the call, in order

infer_vars == <<args, fwd_pc, fwd_avals, fwd_hlo, bwd_pc, bwd_avals, bwd_hlo>>

encoder_vars == <<cfg_args, cfg>>

binder_vars == <<phase, inputs, primal_out, residual, bwd_bind, grads, emitted>>

vars == <<infer_vars, encoder_vars, binder_vars>>

\* ------------------------------------------------------------- SpecInfer

\* Operand shapes built around one consistent attention problem
\* (b, sq, skv, h, d): the agreeing shape and the ways of departing from it.
QueryShapes(b, sq, h, d) == {<<b, sq, h, d>>, <<b, sq, d>>, <<b, sq, h, d, d>>}

KeyShapes(b, skv, h, d) ==
    {<<b, skv, h, d>>, <<Other(b), skv, h, d>>, <<b, skv, Other(h), d>>,
     <<b, skv, d>>}

ValueShapes(b, skv, h, d) ==
    {<<b, skv, h, d>>, <<b, Other(skv), h, d>>, <<b, skv, d>>}

\* (grad_output shape, activation shape): the ones a forward call produces,
\* or unrelated ones.
CotangentShapes(b, sq, skv, h, d) ==
    {<<(<<b, sq, h, d>>), (<<b, h, sq, skv>>)>>, <<(<<sq>>), (<<b, h>>)>>}

InferArgs(qs, ks, vs, gs, as, qd, kd, vd, sc) ==
    [query |-> Tensor(0, "query", qs, qd),
     key |-> Tensor(0, "key", ks, kd),
     value |-> Tensor(0, "value", vs, vd),
     grad_output |-> Tensor(0, "grad_output", gs, qd),
     activation |-> Tensor(0, "activation", as, qd),
     scale |-> sc]

InitInferArgs ==
    \/ \E b \in DimVals, sq \in DimVals, skv \in DimVals, h \in DimVals,
          d \in DimVals :
         \E qs \in QueryShapes(b, sq, h, d), ks \in KeyShapes(b, skv, h, d),
            vs \in ValueShapes(b, skv, h, d),
            c \in CotangentShapes(b, sq, skv, h, d),
            dt \in {"float16", "bfloat16"} :
              args = InferArgs(qs, ks, vs, c[1], c[2], dt, dt, dt, "0.125")
    \* every dtype triple, on a query of rank 4, 3 and 5
    \/ \E qs \in QueryShapes(1, MaxDim, 1, 1), qd \in Dtypes, kd \in Dtypes,
          vd \in Dtypes :
         args = InferArgs(qs, <<1, 1, 1, 1>>, <<1, 1, 1, 1>>,
                          <<1, MaxDim, 1, 1>>, <<1, 1, MaxDim, 1>>,
                          qd, kd, vd, "1.0")

EncoderIdle == cfg_args = Absent /\ cfg = Absent

BinderIdle ==
    /\ phase = [c \in Calls |-> "not_called"]
    /\ inputs = [c \in Calls |-> Absent]
    /\ primal_out = [c \in Calls |-> Absent]
    /\ residual = [c \in Calls |-> <<>>]
    /\ bwd_bind = [c \in Calls |-> <<>>]
    /\ grads = [c \in Calls |-> Absent]
    /\ emitted = [c \in Calls |-> <<>>]

InferIdle ==
    /\ args = Absent
    /\ fwd_pc = "bind" /\ fwd_avals = Absent /\ fwd_hlo = Absent
    /\ bwd_pc = "bind" /\ bwd_avals = Absent /\ bwd_hlo = Absent

InitInfer ==
    /\ InitInferArgs
    /\ fwd_pc = "bind" /\ fwd_avals = Absent /\ fwd_hlo = Absent
    /\ bwd_pc = "bind" /\ bwd_avals = Absent /\ bwd_hlo = Absent
    /\ EncoderIdle
    /\ BinderIdle

\* bind of the forward primitive, first half: its abstract evaluation rule.
FwdAbstractEval ==
    /\ fwd_pc = "bind"
    /\ fwd_avals' = _dot_product_attention_fwd_abstract(
                        args.query, args.key, args.value, args.scale)
    /\ fwd_pc' = IF fwd_avals'.ok THEN "traced" ELSE "raised"
    /\ UNCHANGED <<args, fwd_hlo, bwd_pc, bwd_avals, bwd_hlo>>
    /\ UNCHANGED <<encoder_vars, binder_vars>>

\* second half: the registered GPU lowering, reached only after tracing.
FwdLowering ==
    /\ fwd_pc = "traced"
    /\ fwd_hlo' = _dot_product_attention_fwd_cuda_lowering(
                      args.query, args.key, args.value, args.scale)
    /\ fwd_pc' = IF fwd_hlo'.ok THEN "lowered" ELSE "raised"
    /\ UNCHANGED <<args, fwd_avals, bwd_pc, bwd_avals, bwd_hlo>>
    /\ UNCHANGED <<encoder_vars, binder_vars>>

BwdAbstractEval ==
    /\ bwd_pc = "bind"
    /\ bwd_avals' = _dot_product_attention_bwd_abstract(
                        args.grad_output, args.query, args.key, args.value,
                        args.activation, args.scale)
    /\ bwd_pc' = IF bwd_avals'.ok THEN "traced" ELSE "raised"
    /\ UNCHANGED <<args, bwd_hlo, fwd_pc, fwd_avals, fwd_hlo>>
    /\ UNCHANGED <<encoder_vars, binder_vars>>

BwdLowering ==
    /\ bwd_pc = "traced"
    /\ bwd_hlo' = _dot_product_attention_bwd_cuda_lowering(
                      args.grad_output, args.query, args.key, args.value,
                      args.activation, args.scale)
    /\ bwd_pc' = IF bwd_hlo'.ok THEN "lowered" ELSE "raised"
    /\ UNCHANGED <<args, bwd_avals, fwd_pc, fwd_avals, fwd_hlo>>
    /\ UNCHANGED <<encoder_vars, binder_vars>>

NextInfer == FwdAbstractEval \/ FwdLowering \/ BwdAbstractEval \/ BwdLowering

SpecInfer == InitInfer /\ [][NextInfer]_vars

\* ----------------------------------------------------------- SpecEncoder

InitEncoder == InferIdle /\ EncoderIdle /\ BinderIdle

\* A direct call of the (public) encoder with any argument tuple.
Encode ==
    /\ cfg_args = Absent
    /\ \E batch_size \in DimVals, num_heads \in DimVals, seq_q \in DimVals,
       seq_kv \in DimVals, dtype \in IrTypes, fmha_scale \in Scales,
       dropout_rate \in DropoutRates, is_flash_attention \in BOOLEAN,
       is_causal_mask \in BOOLEAN :
        /\ cfg_args' = [batch_size |-> batch_size, num_heads |-> num_heads,
                        seq_q |-> seq_q, seq_kv |-> seq_kv, dtype |-> dtype,
                        fmha_scale |-> fmha_scale,
                        dropout_rate |-> dropout_rate,
                        is_flash_attention |-> is_flash_attention,
                        is_causal_mask |-> is_causal_mask]
        /\ cfg' = Ok(create_dot_product_attention_backend_config(
                        batch_size, num_heads, seq_q, seq_kv, dtype,
                        fmha_scale, dropout_rate, is_flash_attention,
                        is_causal_mask))
        /\ UNCHANGED <<infer_vars, binder_vars>>

NextEncoder == Encode

SpecEncoder == InitEncoder /\ [][NextEncoder]_vars

\* ------------------------------------------------------------ SpecBinder

InitBinder == InferIdle /\ EncoderIdle /\ BinderIdle

\* What a caller may pass for logical call c: one query length and scale of
\* its choice, a supported or an unsupported dtype.
BinderInputs(c) ==
    {[query |-> Tensor(c, "query", <<1, sq, 1, 1>>, dt),
      key |-> Tensor(c, "key", <<1, Other(sq), 1, 1>>, dt),
      value |-> Tensor(c, "value", <<1, Other(sq), 1, 1>>, dt),
      scale |-> sc] :
        sq \in DimVals, dt \in {"bfloat16", "float32"}, sc \in Scales}

\* The differentiated call's forward pass: custom_vjp runs
\* dot_product_attention_fwd and keeps the residual bundle it returns.
Forward(c) ==
    /\ phase[c] = "not_called"
    /\ \E in \in BinderInputs(c) :
        LET r == dot_product_attention_fwd(in.query, in.key, in.value, in.scale)
        IN  /\ inputs' = [inputs EXCEPT ![c] = in]
            /\ emitted' = [emitted EXCEPT ![c] = r.hlo]
            /\ IF r.result.ok
               THEN /\ primal_out' = [primal_out EXCEPT ![c] = Ok(r.result.value[1])]
                    /\ residual' = [residual EXCEPT ![c] = r.result.value[2]]
                    /\ phase' = [phase EXCEPT ![c] = "forward_pending"]
               ELSE /\ primal_out' = [primal_out EXCEPT ![c] = r.result]
                    /\ residual' = residual
                    /\ phase' = [phase EXCEPT ![c] = "failed"]
    /\ UNCHANGED <<bwd_bind, grads>>
    /\ UNCHANGED <<infer_vars, encoder_vars>>

\* The undifferentiated call: dot_product_attention runs the forward function
\* and drops the bundle at once.
Primal(c) ==
    /\ phase[c] = "not_called"
    /\ \E in \in BinderInputs(c) :
        LET r == dot_product_attention_fwd(in.query, in.key, in.value, in.scale)
        IN  /\ inputs' = [inputs EXCEPT ![c] = in]
            /\ emitted' = [emitted EXCEPT ![c] = r.hlo]
            /\ IF r.result.ok
               THEN /\ primal_out' = [primal_out EXCEPT ![c] = Ok(r.result.value[1])]
                    /\ phase' = [phase EXCEPT ![c] = "discarded"]
               ELSE /\ primal_out' = [primal_out EXCEPT ![c] = r.result]
                    /\ phase' = [phase EXCEPT ![c] = "failed"]
    /\ UNCHANGED <<residual, bwd_bind, grads>>
    /\ UNCHANGED <<infer_vars, encoder_vars>>

\* A gradient is requested for call c: the differentiation system hands the
\* bundle it holds for c, the scale bound at the forward call and a cotangent
\* shaped like the output to dot_product_attention_bwd, and lets go of the
\* bundle.
Backward(c) ==
    /\ phase[c] = "forward_pending"
    /\ LET out == primal_out[c].value
           grad_output == Tensor(c, "grad_output", out.shape, out.dtype)
           r == dot_product_attention_bwd(inputs[c].scale, residual[c], grad_output)
       IN  /\ bwd_bind' = [bwd_bind EXCEPT ![c] = r.bound]
           /\ grads' = [grads EXCEPT ![c] = r.result]
           /\ emitted' = [emitted EXCEPT ![c] = emitted[c] \o r.hlo]
    /\ residual' = [residual EXCEPT ![c] = <<>>]
    /\ phase' = [phase EXCEPT ![c] = "backward_consumed"]
    /\ UNCHANGED <<inputs, primal_out>>
    /\ UNCHANGED <<infer_vars, encoder_vars>>

\* No gradient is ever requested: the bundle is dropped.
Discard(c) ==
    /\ phase[c] = "forward_pending"
    /\ residual' = [residual EXCEPT ![c] = <<>>]
    /\ phase' = [phase EXCEPT ![c] = "discarded"]
    /\ UNCHANGED <<inputs, primal_out, bwd_bind, grads, emitted>>
    /\ UNCHANGED <<infer_vars, encoder_vars>>

NextBinder ==
    \E c \in Calls : Forward(c) \/ Primal(c) \/ Backward(c) \/ Discard(c)

SpecBinder == InitBinder /\ [][NextBinder]_vars

\* ============================================================== claims

\* The three dtypes are equal and one of the two supported formats.
ValidDtypes(a) ==
    /\ a.query.dtype = a.key.dtype
    /\ a.key.dtype = a.value.dtype
    /\ a.query.dtype \in {"float16", "bfloat16"}

\* query is (batch, qSeqLen, numHeads, headDim); key and value are both
\* (batch, kvSeqLen, numHeads, headDim).
AgreeingShapes(a) ==
    /\ Len(a.query.shape) = 4
    /\ Len(a.key.shape) = 4
    /\ a.value.shape = a.key.shape
    /\ a.key.shape[1] = a.query.shape[1]
    /\ a.key.shape[3] = a.query.shape[3]
    /\ a.key.shape[4] = a.query.shape[4]

\* C1: on rank-4 query, key, value of agreeing shapes and one supported dtype,
\* forward abstract evaluation returns exactly two descriptors, output of
\* shape (batch, qSeqLen, numHeads, headDim) and activation of shape
\* (batch, numHeads, qSeqLen, kvSeqLen), both of the query dtype.
C1_FwdAbstractShapes ==
    (fwd_pc # "bind" /\ ValidDtypes(args) /\ AgreeingShapes(args)) =>
        LET q == args.query.shape
            k == args.key.shape
        IN  /\ fwd_avals.ok
            /\ Len(fwd_avals.value) = 2
            /\ fwd_avals.value[1] =
                 [shape |-> <<q[1], q[2], q[3], q[4]>>, dtype |-> args.query.dtype]
            /\ fwd_avals.value[2] =
                 [shape |-> <<q[1], q[3], q[2], k[2]>>, dtype |-> args.query.dtype]

\* C1 witness: forward abstract evaluation has run on agreeing bf16 operands
\* whose query length, key length and head count are pairwise told apart.
C1_Witness ==
    /\ fwd_pc = "traced"
    /\ ValidDtypes(args) /\ AgreeingShapes(args)
    /\ args.query.dtype = "bfloat16"
    /\ args.query.shape[2] # args.query.shape[3]
    /\ args.query.shape[2] # args.key.shape[2]
    /\ fwd_avals.ok

\* C2: on operands of one supported dtype, backward abstract evaluation
\* returns exactly three descriptors shaped like query, key and value, in
\* that order, of the input dtype, whatever grad_output and activation are.
C2_BwdAbstractShapes ==
    (bwd_pc # "bind" /\ ValidDtypes(args)) =>
        /\ bwd_avals.ok
        /\ Len(bwd_avals.value) = 3
        /\ bwd_avals.value[1] =
             [shape |-> args.query.shape, dtype |-> args.query.dtype]
        /\ bwd_avals.value[2] =
             [shape |-> args.key.shape, dtype |-> args.query.dtype]
        /\ bwd_avals.value[3] =
             [shape |-> args.value.shape, dtype |-> args.query.dtype]

\* C2 witness: backward abstract evaluation has run with a value shaped
\* unlike the key and a grad_output shaped unlike the query.
C2_Witness ==
    /\ bwd_pc = "traced"
    /\ ValidDtypes(args)
    /\ args.value.shape # args.key.shape
    /\ args.grad_output.shape # args.query.shape
    /\ bwd_avals.ok

\* C3: when the three dtypes are not all equal or are not a supported format,
\* both abstract evaluations end in an (assertion) error, produce no
\* descriptor, and no kernel invocation is ever built for the bind.
C3_BadDtypeRejected ==
    ~ValidDtypes(args) =>
        /\ fwd_hlo = Absent
        /\ bwd_hlo = Absent
        /\ fwd_pc # "bind" =>
             (fwd_pc = "raised" /\ fwd_avals = Raise("AssertionError"))
        /\ bwd_pc # "bind" =>
             (bwd_pc = "raised" /\ bwd_avals = Raise("AssertionError"))

\* C3 witness: both binds were attempted on float32 / float64 / float32
\* operands (equal once canonicalised, yet unsupported) and both raised.
C3_Witness ==
    /\ args.query.dtype = "float32"
    /\ args.key.dtype = "float64"
    /\ args.value.dtype = "float32"
    /\ fwd_pc = "raised"
    /\ bwd_pc = "raised"

\* The batch or head-count axes of query, key, value do not all agree, or
\* key and value differ in sequence length (all three of rank 4).
DisagreeingShapes(a) ==
    /\ Len(a.query.shape) = 4 /\ Len(a.key.shape) = 4 /\ Len(a.value.shape) = 4
    /\ \/ a.query.shape[1] # a.key.shape[1]
       \/ a.key.shape[1] # a.value.shape[1]
       \/ a.query.shape[3] # a.key.shape[3]
       \/ a.key.shape[3] # a.value.shape[3]
       \/ a.key.shape[2] # a.value.shape[2]

\* C4: on rank-4 operands of one supported dtype whose batch axes or head
\* counts disagree, or whose key and value lengths differ, forward abstract
\* evaluation fails, returns no descriptor, and no kernel call is built.
C4_ShapeDisagreementRejected ==
    (fwd_pc # "bind" /\ ValidDtypes(args) /\ DisagreeingShapes(args)) =>
        (fwd_pc = "raised" /\ ~fwd_avals.ok /\ fwd_hlo = Absent)

\* C5: the call emitted by the backward lowering names the backward kernel,
\* takes grad_output, query, key, value, activation in that order, declares
\* grad-query, grad-key, grad-value in that order, and carries one operand
\* layout per operand.
C5_BwdCallCarriesGradOutput ==
    bwd_pc = "lowered" =>
        LET call == bwd_hlo.value
        IN  /\ call.call_target_name = "__cudnn$fhmaSoftmaxBackward"
            /\ call.operands = <<args.grad_output, args.query, args.key,
                                 args.value, args.activation>>
            /\ call.result_types =
                 <<ir_type(args.query), ir_type(args.key), ir_type(args.value)>>
            /\ Len(call.operand_layouts) = Len(call.operands)

\* C7: a rank-3 query of a supported dtype ends forward processing in a rank
\* error: no descriptor is returned and neither a configuration record nor a
\* kernel invocation is built afterwards.
C7_Rank3QueryRejected ==
    (fwd_pc # "bind" /\ ValidDtypes(args) /\ Len(args.query.shape) = 3) =>
        /\ fwd_pc = "raised"
        /\ fwd_avals = Raise("ValueError")
        /\ fwd_hlo = Absent

\* C7 witness: the forward bind of a rank-3 bf16 query has raised.
C7_Witness ==
    /\ Len(args.query.shape) = 3
    /\ ValidDtypes(args)
    /\ Len(args.key.shape) = 4
    /\ fwd_pc = "raised"

\* The descriptor a ranked tensor type stands for.
SameType(t, aval) ==
    /\ t.shape = aval.shape
    /\ t.element_type = dtype_to_ir_type(aval.dtype)

\* C10: whenever abstract evaluation accepts, the lowering of the same bind
\* declares result types equal to the abstract descriptors (two forward,
\* three backward), the configuration's intermediate dimensions are the
\* activation shape, and forward and backward build the same configuration
\* (dropout 0, flags off, seed "42").
C10_LoweringAgreesWithAbstractEval ==
    /\ (fwd_pc \in {"lowered", "raised"} /\ fwd_avals.ok) =>
         /\ fwd_hlo.ok
         /\ Len(fwd_hlo.value.result_types) = 2
         /\ \A i \in 1..2 :
              SameType(fwd_hlo.value.result_types[i], fwd_avals.value[i])
         /\ LET its == fwd_hlo.value.backend_config.intermediate_tensor_shape
            IN  its.dimensions =
                  [i \in 1..4 |-> str(fwd_avals.value[2].shape[i])]
    /\ (bwd_pc \in {"lowered", "raised"} /\ bwd_avals.ok) =>
         /\ bwd_hlo.ok
         /\ Len(bwd_hlo.value.result_types) = 3
         /\ \A i \in 1..3 :
              SameType(bwd_hlo.value.result_types[i], bwd_avals.value[i])
    /\ (fwd_pc = "lowered" /\ bwd_pc = "lowered") =>
         /\ fwd_hlo.value.backend_config = bwd_hlo.value.backend_config
         /\ fwd_hlo.value.backend_config.dropout_rate = 0
         /\ fwd_hlo.value.backend_config.is_flash_attention = FALSE
         /\ fwd_hlo.value.backend_config.is_causal_mask = FALSE
         /\ fwd_hlo.value.backend_config.seed = "42"

\* C8: the encoder fails, and returns no record, whenever the dtype it is
\* given has no backend type tag; no returned record has a missing element
\* type.
C8_EncoderRejectsUntaggedDtype ==
    cfg_args # Absent =>
        /\ cfg_args.dtype \notin {"bf16", "f16"} => ~cfg.ok
        /\ cfg.ok => cfg.value.intermediate_tensor_shape.element_type # None

BlockNames ==
    {"bmm1_dot_dimension_numbers", "bmm2_dot_dimension_numbers",
     "bmm1_grad_gemm1_dot_dimension_numbers",
     "bmm1_grad_gemm2_dot_dimension_numbers",
     "bmm2_grad_gemm1_dot_dimension_numbers",
     "bmm2_grad_gemm2_dot_dimension_numbers"}

Blocks(config) == [n \in BlockNames |-> config[n]]

\* A record with the argument-dependent fields blanked.
Masked(config) ==
    [config EXCEPT !.fmha_scale = "", !.dropout_rate = 0,
                   !.is_flash_attention = FALSE, !.is_causal_mask = FALSE,
                   !.intermediate_tensor_shape.element_type = "",
                   !.intermediate_tensor_shape.dimensions = <<>>]

\* The record of one fixed argument tuple, to compare every other one with.
ReferenceConfig ==
    create_dot_product_attention_backend_config(
        1, 1, 1, 1, "bf16", "1.0", 0, FALSE, FALSE)

\* C9: the six dimension-numbering blocks are the same for every argument
\* tuple, only dimensions, element type, scale, dropout rate and the two
\* flags vary; bmm1 contracts both operands on axis 3 with batch axes (0, 2)
\* on both sides, bmm2 contracts the weights on axis 3 and the value on axis 1.
C9_DimensionNumbersFixed ==
    cfg.ok =>
        /\ Blocks(cfg.value) = Blocks(ReferenceConfig)
        /\ Masked(cfg.value) = Masked(ReferenceConfig)
        /\ cfg.value.bmm1_dot_dimension_numbers =
             [lhs_contracting_dimensions |-> <<"3">>,
              rhs_contracting_dimensions |-> <<"3">>,
              lhs_batch_dimensions |-> <<"0", "2">>,
              rhs_batch_dimensions |-> <<"0", "2">>]
        /\ cfg.value.bmm2_dot_dimension_numbers.lhs_contracting_dimensions = <<"3">>
        /\ cfg.value.bmm2_dot_dimension_numbers.rhs_contracting_dimensions = <<"1">>

\* C9 witness: the encoder was called with sizes, dtype, scale, dropout rate
\* and flags all different from the reference tuple.
C9_Witness ==
    /\ cfg.ok
    /\ cfg_args.batch_size = MaxDim /\ cfg_args.num_heads = MaxDim
    /\ cfg_args.seq_q = MaxDim /\ cfg_args.seq_kv = MaxDim
    /\ cfg_args.dtype = "f16" /\ cfg_args.fmha_scale = "0.125"
    /\ cfg_args.dropout_rate = 1
    /\ cfg_args.is_flash_attention /\ cfg_args.is_causal_mask

\* The activation tensor the forward operator of call c produces.
ActivationOf(c) ==
    LET q == inputs[c].query.shape
        k == inputs[c].key.shape
    IN  [call |-> c, name |-> "activation",
         shape |-> <<q[1], q[3], q[2], k[2]>>, dtype |-> inputs[c].query.dtype]

\* The bundle of call c: (activation, query, key, value) of that very call.
BundleOf(c) ==
    <<ActivationOf(c), inputs[c].query, inputs[c].key, inputs[c].value>>

C6_BundleState(c) ==
    /\ phase[c] = "forward_pending" => residual[c] = BundleOf(c)
    /\ phase[c] \in {"not_called", "failed", "discarded", "backward_consumed"} =>
         residual[c] = <<>>
    /\ phase[c] # "backward_consumed" => (bwd_bind[c] = <<>> /\ grads[c] = Absent)
    /\ phase[c] = "backward_consumed" =>
         /\ Len(bwd_bind[c]) = 6
         /\ bwd_bind[c][1].name = "grad_output" /\ bwd_bind[c][1].call = c
         /\ <<bwd_bind[c][5], bwd_bind[c][2], bwd_bind[c][3], bwd_bind[c][4]>>
              = BundleOf(c)
         /\ bwd_bind[c][6] = inputs[c].scale
         /\ grads[c].ok
         /\ Len(grads[c].value) = 3
         /\ [i \in 1..3 |-> grads[c].value[i].name] =
              <<"grad_query", "grad_key", "grad_value">>
         /\ \A i \in 1..3 : grads[c].value[i].call = c

C6_BundleStep(c) ==
    /\ phase[c] = "forward_pending" =>
         phase'[c] \in {"forward_pending", "backward_consumed", "discarded"}
    /\ phase[c] \in {"backward_consumed", "discarded"} =>
         /\ phase'[c] = phase[c]
         /\ residual'[c] = <<>>
         /\ bwd_bind'[c] = bwd_bind[c]
         /\ grads'[c] = grads[c]

\* C6: over any interleaving of forward and backward calls of several
\* logical calls, the bundle held for a call is (activation, query, key,
\* value) of that call; its backward binds grad_output, those four tensors and
\* the bound scale and returns three gradients; Forward-pending leads only to
\* Backward-consumed or Discarded, both terminal, and a bundle is used by no
\* other call's backward and never after it was consumed.
C6_ResidualBundleLifecycle ==
    /\ [](\A c \in Calls : C6_BundleState(c))
    /\ [][\A c \in Calls : C6_BundleStep(c)]_vars

\* C6 witness: one call's bundle was consumed by its backward while another
\* call, made with a different query, still holds its own, and the two
\* calls' scales differ.
C6_Witness ==
    \E c \in Calls, e \in Calls :
        /\ c # e
        /\ phase[c] = "backward_consumed"
        /\ grads[c].ok
        /\ phase[e] = "forward_pending"
        /\ residual[e] # <<>>
        /\ inputs[c].query.shape # inputs[e].query.shape
        /\ inputs[c].scale # inputs[e].scale

====
